---- MODULE Spec2Model ----
(***************************************************************************)
(* A model of the cstruct binary-structure decoder: the class decorator    *)
(* (grammar and field composition), the format-grammar lexer, the stream   *)
(* decoder it drives, and the metadata collector.                          *)
(*                                                                         *)
(* A grammar ("data format") is a sequence of one-character strings.  A    *)
(* byte stream is a sequence of naturals.  Python values are tagged        *)
(* records (IntV, BytesV, NoneV, ListV, RecV); an entry of the lexer's     *)
(* value list is the triple [value, format, size] written [v, f, s].       *)
(***************************************************************************)
EXTENDS Integers, Sequences, FiniteSets, TLC

VARIABLES
    registry,     \* the declared (decorated) classes, by name
    order,        \* the declarations made so far, in declaration order
    has_leb128,   \* _lexer.has_leb128: the pyleb128 import succeeded
    status,       \* "declaring", "ready", "running", "done" or "error"
    err,          \* the exception raised: [type, msg]
    stream,       \* the bytes behind the reader
    cursor,       \* stream.tell()
    reads,        \* the number of stream.read calls the lexer made so far
    call,         \* the arguments of the top-level decode call
    stack,        \* the active CStructLexer objects, outermost first
    lexers,       \* class name -> the pad_bytes of the class's _lexer
    record,       \* the record the top-level call returned
    furthest,     \* the highest position the reader had during the call
    instances,    \* the records the package's decorator returned, in order
    accessors     \* class name -> the instance its __getitem__ is bound to

\* the state of the classes decorated by the package's __init__.py
pkgvars == <<instances, accessors>>

vars == <<registry, order, has_leb128, status, err, stream, cursor, reads,
          call, stack, lexers, record, furthest, instances, accessors>>

(***************************************************************************)
(* Bounds.                                                                 *)
(***************************************************************************)
MaxStreamLen == 3
MaxByte == 1
MaxClasses == 3
MaxCalls == 2
PkgMaxLen == 1

(***************************************************************************)
(* Sequence helpers.                                                       *)
(***************************************************************************)
Range(s) == {s[i] : i \in DOMAIN s}

RECURSIVE SumSeq(_)
SumSeq(s) == IF s = <<>> THEN 0 ELSE Head(s) + SumSeq(Tail(s))

Min(a, b) == IF a < b THEN a ELSE b

Take(s, n) == SubSeq(s, 1, Min(n, Len(s)))

SeqsUpTo(S, n) == UNION {[1..k -> S] : k \in 0..n}

(***************************************************************************)
(* Python values.                                                          *)
(***************************************************************************)
IntV(n) == [t |-> "int", n |-> n]
BytesV(b) == [t |-> "bytes", b |-> b]
NoneV == [t |-> "none"]
ListV(items) == [t |-> "list", items |-> items]
RecV(r) == [t |-> "rec", r |-> r]

Exc(type, msg) == [type |-> type, msg |-> msg]
NoExc == Exc("", "")

(***************************************************************************)
(* Characters.                                                             *)
(***************************************************************************)
Digits == {"0", "1", "2", "3", "4", "5", "6", "7", "8", "9"}

DigitVal(c) ==
    CASE c = "0" -> 0 [] c = "1" -> 1 [] c = "2" -> 2 [] c = "3" -> 3
      [] c = "4" -> 4 [] c = "5" -> 5 [] c = "6" -> 6 [] c = "7" -> 7
      [] c = "8" -> 8 [] c = "9" -> 9

DigitCh(d) == <<"0", "1", "2", "3", "4", "5", "6", "7", "8", "9">>[d + 1]

\* int(digit_buffer) for a buffer of decimal digits
RECURSIVE ParseInt(_)
ParseInt(buf) ==
    IF buf = <<>> THEN 0
    ELSE 10 * ParseInt(SubSeq(buf, 1, Len(buf) - 1)) + DigitVal(buf[Len(buf)])

\* str(n) for a natural n, as a sequence of characters
RECURSIVE StrOfNat(_)
StrOfNat(n) ==
    IF n < 10 THEN <<DigitCh(n)>>
    ELSE StrOfNat(n \div 10) \o <<DigitCh(n % 10)>>

ULEB128_FORMAT_CH == "U"
ULEB128P1_FORMAT_CH == "V"
SLEB128_FORMAT_CH == "S"
TYPEDEF_FORMAT_CH == "T"
PAD_FORMAT_CH == "x"

(***************************************************************************)
(* The lexer.  NextToken is CStructLexer._next_token on the grammar fmt at *)
(* position pos (the number of characters consumed so far) with the value  *)
(* list values.  It returns either the token and the new position, or the  *)
(* exception raised and the position reached when it was raised.           *)
(***************************************************************************)
Token(repeat_count, format_ch, is_vararr) ==
    [repeat_count |-> repeat_count, format_ch |-> format_ch, vararr |-> is_vararr]

NoToken == Token(NoneV, "", FALSE)

LexOk(tok, pos) == [ok |-> TRUE, exc |-> NoExc, pos |-> pos, tok |-> tok]
LexErr(exc, pos) == [ok |-> FALSE, exc |-> exc, pos |-> pos, tok |-> NoToken]

\* the positions (1-based) after p that hold the closing parenthesis
ClosingAt(fmt, p) == {i \in (p + 1)..Len(fmt) : fmt[i] = ")"}

\* the positions (1-based) after p that hold a non-digit
NonDigitAt(fmt, p) == {i \in (p + 1)..Len(fmt) : fmt[i] \notin Digits}

SetMin(S) == CHOOSE m \in S : \A k \in S : m <= k

\* a lexer that starts at position 1 instead of 0 would guard on 0
AtStart_zero(pos) == pos = 0

\* _next_token, line 209: self.pos == 1 once the parenthesis is consumed
AtStart(pos) == pos = 1

NextToken(fmt, pos, values) ==
    LET first == fmt[pos + 1] IN
    IF first = "("
    THEN IF AtStart(pos + 1)
         THEN LexErr(Exc("InvalidFormat", "start"), 1)
         ELSE IF ClosingAt(fmt, pos + 1) = {}
         THEN LexErr(Exc("IndexError", "string index"), Len(fmt))
         ELSE LET close == SetMin(ClosingAt(fmt, pos + 1))
                  digit_buffer == SubSeq(fmt, pos + 2, close - 1)
              IN  IF close = Len(fmt)
                  THEN LexErr(Exc("IndexError", "string index"), Len(fmt))
                  ELSE LET vararr_format == fmt[close + 1]
                           newpos == close + 1
                       IN  IF digit_buffer = <<>> \/ Range(digit_buffer) \ Digits # {}
                           THEN LexErr(Exc("ValueError", "int"), newpos)
                           ELSE LET data_index == ParseInt(digit_buffer) IN
                                IF data_index >= Len(values)
                                THEN LexErr(Exc("IndexError", "list index"), newpos)
                                ELSE LET data_value == values[data_index + 1].v IN
                                     IF vararr_format = "s"
                                     THEN LexOk(Token(data_value, vararr_format, FALSE), newpos)
                                     ELSE LexOk(Token(data_value, vararr_format, TRUE), newpos)
    ELSE IF first \in Digits
    THEN IF NonDigitAt(fmt, pos + 1) = {}
         THEN LexErr(Exc("IndexError", "string index"), Len(fmt))
         ELSE LET stop == SetMin(NonDigitAt(fmt, pos + 1))
                  digit_buffer == SubSeq(fmt, pos + 1, stop - 1)
              IN  LexOk(Token(IntV(ParseInt(digit_buffer)), fmt[stop], FALSE), stop)
    ELSE LexOk(Token(IntV(1), first, FALSE), pos + 1)


(***************************************************************************)
(* Class declarations.  A declaration is what the decorator receives: the  *)
(* source class (name, base, annotations in declaration order) and the     *)
(* decorator's arguments (the grammar fragment and the byte order).  An    *)
(* annotation is [name, type, dflt]; dflt says the field has the default   *)
(* None.  The types are "int", "bytes", "list", "InitVar" (an init-only   *)
(* pseudo-field), "ClassVar" (a bare class-only annotation), the name of   *)
(* an enumeration or the name of a decorated class.                        *)
(***************************************************************************)
Ann(name, type) == [name |-> name, type |-> type, dflt |-> FALSE]
AnnD(name, type) == [name |-> name, type |-> type, dflt |-> TRUE]

Decl(name, base, data_format, byte_order, annotations) ==
    [name |-> name, base |-> base, data_format |-> data_format,
     byte_order |-> byte_order, annotations |-> annotations]

EmptyRegistry == [n \in {} |-> 0]

\* dict.update: a key already present keeps its place and takes the new value
RECURSIVE DictUpdate(_, _)
DictUpdate(d, items) ==
    IF items = <<>> THEN d
    ELSE LET a == Head(items)
             hit == {i \in DOMAIN d : d[i].name = a.name}
             d2 == IF hit = {} THEN Append(d, a)
                   ELSE [i \in DOMAIN d |-> IF i \in hit THEN a ELSE d[i]]
         IN  DictUpdate(d2, Tail(items))

IsSynthetic(a) == a.type \in {"InitVar", "ClassVar"}

\* a decorator that puts the fragment before the base's grammar
ComposeFormat_swapped(decl, reg) ==
    IF decl.base # "object" /\ decl.base \in DOMAIN reg
    THEN decl.data_format \o reg[decl.base].primitive_format
    ELSE decl.data_format

\* cstruct.decorate: the composed grammar of a declaration
ComposeFormat(decl, reg) ==
    IF decl.base # "object" /\ decl.base \in DOMAIN reg
    THEN reg[decl.base].primitive_format \o decl.data_format
    ELSE decl.data_format

\* _gen_superclass and the dataclass transform applied to its result: the
\* __dataclass_fields__ of the generated class, pseudo-fields included.
\* The generated class derives from the base's source class, which is not
\* itself a dataclass: it only inherits the __dataclass_fields__ of the
\* decorated class that the base's source class derives from, if any.
GenSuperclass(decl, reg) ==
    IF decl.base = "object" \/ decl.base \notin DOMAIN reg
    THEN decl.annotations
    ELSE LET base == reg[decl.base]
             inherited == IF base.base # "object" /\ base.base \in DOMAIN reg
                          THEN reg[base.base].dc_fields
                          ELSE <<>>
             annotations == DictUpdate(DictUpdate(<<>>, base.annotations),
                                       decl.annotations)
             kept == SelectSeq(annotations, LAMBDA a : ~IsSynthetic(a))
         IN  DictUpdate(inherited, kept)

\* ClassWrapper.wrap / _make_newclass: the decorated class
MakeNewclass(decl, reg) ==
    [name |-> decl.name,
     base |-> decl.base,
     annotations |-> decl.annotations,
     primitive_format |-> ComposeFormat(decl, reg),
     data_byte_order |-> decl.byte_order,
     dc_fields |-> GenSuperclass(decl, reg)]

\* dataclasses.fields(cls): the real fields, without the pseudo-fields
Fields(cls) == SelectSeq(cls.dc_fields, LAMBDA a : ~IsSynthetic(a))

\* the decorated class's __new__ reaches another decorated class's __new__
\* through super() when the base's source class derives from a decorated class
SuperNewNeedsStream(cls, reg) ==
    /\ cls.base # "object" /\ cls.base \in DOMAIN reg
    /\ reg[cls.base].base # "object" /\ reg[cls.base].base \in DOMAIN reg

\* repr(type).startswith("<class 'cstruct.classwrapper.")
IsWrapped(type, reg) == type \in DOMAIN reg

(***************************************************************************)
(* Enumerations.  ELF_CLASS is the integer enumeration of examples/test.py, *)
(* whose _missing_ hook returns the member with value 0; Plain is an       *)
(* enumeration with the same members and no _missing_ hook.                *)
(***************************************************************************)
EnumTypes == {"ELF_CLASS", "Plain"}
EnumMembers(type) == {0, 1, 2}
EnumV(type, n) == [t |-> "enum", type |-> type, n |-> n]

\* the enumeration defines _missing_ (examples/test.py, lines 26-28)
HasMissingHook(type) == type = "ELF_CLASS"

\* field.type(value) raises ValueError: no member has the value and the
\* enumeration has no _missing_ hook
EnumRaises(type, value) ==
    /\ ~HasMissingHook(type)
    /\ ~(value.t = "int" /\ value.n \in EnumMembers(type))

\* field.type(value) when it returns
EnumOf(type, value) ==
    IF value.t = "int" /\ value.n \in EnumMembers(type)
    THEN EnumV(type, value.n)
    ELSE EnumV(type, 0)

(***************************************************************************)
(* The reader and the struct module.                                       *)
(***************************************************************************)
\* the byte values of the streams: the small values and 129, a byte with
\* the continuation bit of the LEB128 encodings set
Bytes == (0..MaxByte) \cup {129}

Streams == SeqsUpTo(Bytes, MaxStreamLen)

\* stream.read(n) at position cur: the bytes returned
ReadData(s, cur, n) ==
    IF cur >= Len(s) THEN <<>> ELSE SubSeq(s, cur + 1, Min(cur + n, Len(s)))

StructChars == {"B", "H", "s", "x"}

\* struct.calcsize of one item of a valid format character
ItemSize(ch) == IF ch = "H" THEN 2 ELSE 1

\* struct.unpack of one scalar
Scalar(ch, byte_order, data) ==
    IF ch = "H"
    THEN IF byte_order = "<" THEN data[1] + 256 * data[2]
                             ELSE 256 * data[1] + data[2]
    ELSE data[1]

ByteOrder(cls) == IF cls.data_byte_order = "little" THEN "<" ELSE ">"

Entry(v, f, s) == [v |-> v, f |-> f, s |-> s]

StrOfInt(n) == IF n < 0 THEN <<"-">> \o StrOfNat(0 - n) ELSE StrOfNat(n)

\* the result of a read-and-unpack step: the entry or the exception, the
\* position the reader is left at and the number of read calls made
StepOk(entry, cur, nreads) ==
    [ok |-> TRUE, exc |-> NoExc, entry |-> entry, cursor |-> cur, reads |-> nreads]
StepErr(exc, cur, nreads) ==
    [ok |-> FALSE, exc |-> exc, entry |-> Entry(NoneV, <<>>, 0), cursor |-> cur,
     reads |-> nreads]

\* struct.unpack(byte_order + f"{count}{ch}", stream.read(struct.calcsize(
\* f"{count}{ch}")))[0], with the entry [value, ch, size] built from it
UnpackFirst(count, ch, byte_order, s, cur) ==
    IF count.t # "int" \/ ch \notin StructChars
    THEN StepErr(Exc("struct.error", "bad char"), cur, 0)
    ELSE IF count.n < 0
    THEN StepErr(Exc("struct.error", "bad char"), cur, 0)
    ELSE LET size == count.n * ItemSize(ch)
             data == ReadData(s, cur, size)
             after == cur + Len(data)
         IN  IF Len(data) # size
             THEN StepErr(Exc("struct.error", "buffer"), after, 1)
             ELSE IF ch = "s"
             THEN StepOk(Entry(BytesV(data), ch, size), after, 1)
             ELSE IF ch = "x" \/ count.n = 0
             THEN StepErr(Exc("IndexError", "tuple index"), after, 1)
             ELSE StepOk(Entry(IntV(Scalar(ch, byte_order, data)), ch, size),
                         after, 1)

(***************************************************************************)
(* The variable-length-integer bridge (pyleb128).  A byte below 128 ends   *)
(* an encoded value, a byte from 128 up continues it.                      *)
(***************************************************************************)
LebChars == {ULEB128_FORMAT_CH, ULEB128P1_FORMAT_CH, SLEB128_FORMAT_CH}

LebEnds(s, cur) == {i \in (cur + 1)..Len(s) : s[i] < 128}

\* peek_size: 0 when the stream is exhausted, -1 for a truncated encoding
LebPeekSize(s, cur) ==
    IF cur >= Len(s) THEN 0
    ELSE IF LebEnds(s, cur) = {} THEN 0 - 1
    ELSE SetMin(LebEnds(s, cur)) - cur

RECURSIVE LebUnsigned(_)
LebUnsigned(data) ==
    IF data = <<>> THEN 0
    ELSE (Head(data) % 128) + 128 * LebUnsigned(Tail(data))

RECURSIVE Pow128(_)
Pow128(k) == IF k = 0 THEN 1 ELSE 128 * Pow128(k - 1)

LebValue(ch, data) ==
    IF ch = ULEB128_FORMAT_CH THEN LebUnsigned(data)
    ELSE IF ch = ULEB128P1_FORMAT_CH THEN LebUnsigned(data) - 1
    ELSE IF data[Len(data)] % 128 >= 64
         THEN LebUnsigned(data) - Pow128(Len(data))
         ELSE LebUnsigned(data)

\* CStructLexer._read_leb128
ReadLeb128(ch, s, cur) ==
    LET leb_size == LebPeekSize(s, cur) IN
    IF leb_size < 0
    THEN StepErr(Exc("EOFError", "leb128"), cur, 0)
    ELSE IF leb_size = 0
    THEN StepOk(Entry(IntV(0), ch, 0), cur, 0)
    ELSE StepOk(Entry(IntV(LebValue(ch, SubSeq(s, cur + 1, cur + leb_size))),
                      ch, leb_size),
                cur + leb_size, 0)

(***************************************************************************)
(* The declarations of the program under study: a script in the style of   *)
(* examples/test.py that declares these classes, in this order, and then   *)
(* decodes one of them from a reader.                                      *)
(***************************************************************************)
Fixture == <<
    Decl("Empty", "object", <<>>, "little",
         <<>>),
    Decl("One", "object", <<"B">>, "little",
         <<Ann("a", "int")>>),
    Decl("Word", "object", <<"H">>, "big",
         <<Ann("a", "int")>>),
    Decl("ByteWord", "object", <<"B", "H">>, "little",
         <<Ann("a", "int"), Ann("b", "int")>>),
    Decl("Pair", "object", <<"2", "B">>, "little",
         <<Ann("a", "int"), Ann("b", "int")>>),
    Decl("Rep", "object", <<"2", "B">>, "little",
         <<Ann("a", "int")>>),
    Decl("TwoTok", "object", <<"B", "B">>, "little",
         <<Ann("a", "int")>>),
    Decl("Short", "object", <<"B">>, "little",
         <<Ann("a", "int"), Ann("b", "int")>>),
    Decl("Dflt", "object", <<"B">>, "little",
         <<Ann("a", "int"), AnnD("b", "int")>>),
    Decl("Blob", "object", <<"2", "s">>, "little",
         <<Ann("a", "bytes")>>),
    Decl("Arr", "object", <<"B", "(", "0", ")", "B">>, "little",
         <<Ann("n", "int"), Ann("xs", "list")>>),
    Decl("ArrH", "object", <<"B", "(", "0", ")", "H">>, "big",
         <<Ann("n", "int"), Ann("xs", "list")>>),
    Decl("Str", "object", <<"B", "(", "0", ")", "s">>, "little",
         <<Ann("n", "int"), Ann("s", "bytes")>>),
    Decl("ArrU", "object", <<"B", "(", "0", ")", "U">>, "little",
         <<Ann("n", "int"), Ann("xs", "list")>>),
    Decl("Leb", "object", <<"U", "V">>, "little",
         <<Ann("a", "int"), Ann("b", "int")>>),
    Decl("ParenFirst", "object", <<"(", "0", ")", "B">>, "little",
         <<Ann("a", "int")>>),
    Decl("NoDigits", "object", <<"B", "(", ")", "B">>, "little",
         <<Ann("a", "int"), Ann("b", "list")>>),
    Decl("NotNum", "object", <<"B", "(", "a", ")", "B">>, "little",
         <<Ann("a", "int"), Ann("b", "list")>>),
    Decl("OutOfRange", "object", <<"B", "(", "1", ")", "B">>, "little",
         <<Ann("a", "int"), Ann("b", "list")>>),
    Decl("RefBytes", "object", <<"1", "s", "(", "0", ")", "B">>, "little",
         <<Ann("a", "bytes"), Ann("b", "list")>>),
    Decl("RefNone", "object", <<"B", "(", "0", ")", "B", "(", "1", ")", "s">>, "little",
         <<Ann("a", "int"), Ann("b", "list"), Ann("c", "bytes")>>),
    Decl("Unclosed", "object", <<"B", "(", "0">>, "little",
         <<Ann("a", "int")>>),
    Decl("NoCode", "object", <<"B", "(", "0", ")">>, "little",
         <<Ann("a", "int")>>),
    Decl("DigitsOnly", "object", <<"2">>, "little",
         <<Ann("a", "int")>>),
    Decl("Outer", "object", <<"T", "B">>, "little",
         <<Ann("n", "One"), Ann("b", "int")>>),
    Decl("Padded", "object", <<"B", "x">>, "little",
         <<Ann("a", "int")>>),
    Decl("Mid", "object", <<"B", "T">>, "little",
         <<Ann("a", "int"), Ann("n", "Padded")>>),
    Decl("Top", "object", <<"T", "B">>, "little",
         <<Ann("m", "Mid"), Ann("b", "int")>>),
    Decl("BadT", "object", <<"B", "T">>, "little",
         <<Ann("a", "int"), Ann("b", "int")>>),
    Decl("OuterP", "object", <<"T", "B">>, "little",
         <<Ann("n", "Padded"), Ann("b", "int")>>),
    Decl("ArrT", "object", <<"B", "(", "0", ")", "T">>, "little",
         <<Ann("n", "int"), Ann("xs", "list"), AnnD("p", "int"), AnnD("q", "int"), AnnD("r", "One")>>),
    Decl("Tagged", "object", <<"B">>, "little",
         <<Ann("c", "ELF_CLASS")>>),
    Decl("DigT", "object", <<"1", "s", "T">>, "little",
         <<Ann("a", "bytes"), Ann("n", "One")>>),
    Decl("WrongT", "object", <<"1", "s", "T">>, "little",
         <<Ann("a", "bytes"), Ann("n", "One"), AnnD("m", "Word")>>),
    Decl("Tags", "object", <<"B", "(", "0", ")", "B">>, "little",
         <<Ann("n", "int"), Ann("cs", "ELF_CLASS")>>),
    Decl("Strict", "object", <<"B">>, "little",
         <<Ann("c", "Plain")>>),
    Decl("Base", "object", <<"B">>, "little",
         <<Ann("x", "int"), Ann("iv", "InitVar")>>),
    Decl("Derived", "Base", <<"B">>, "little",
         <<Ann("y", "int")>>),
    Decl("Third", "Derived", <<"B">>, "little",
         <<Ann("z", "int")>>)
>>

\* the decorator applied to the declarations decls in order, starting from reg
RECURSIVE DeclareAll(_, _)
DeclareAll(decls, reg) ==
    IF decls = <<>> THEN reg
    ELSE LET d == Head(decls)
         IN  DeclareAll(Tail(decls), (d.name :> MakeNewclass(d, reg)) @@ reg)

(***************************************************************************)
(* The state.                                                              *)
(***************************************************************************)
\* the loop of parse, lines 88-126: vararr_values, sum_size and the number
\* of iterations left; start records where the reader was when it began
NoLoop == [on |-> FALSE, left |-> 0, items |-> <<>>, sum |-> 0, start |-> 0]

\* CStructLexer.__init__, with the position parse_struct recorded before it
NewLexer(clsname, stream_pos) ==
    [cls |-> clsname, pos |-> 0, values |-> <<>>, stream_pos |-> stream_pos,
     pad_bytes |-> 0, token |-> NoToken, loop |-> NoLoop]

NoCall == [cls |-> "", offset |-> 0 - 1, pos |-> 0]
NoRecord == [cls |-> "", attrs |-> <<>>, meta |-> <<>>]

Init ==
    /\ registry = EmptyRegistry
    /\ order = <<>>
    /\ has_leb128 = FALSE
    /\ status = "declaring"
    /\ err = NoExc
    /\ stream = <<>>
    /\ cursor = 0
    /\ reads = 0
    /\ call = NoCall
    /\ stack = <<>>
    /\ lexers = EmptyRegistry
    /\ record = NoRecord
    /\ furthest = 0
    /\ instances = <<>>
    /\ accessors = EmptyRegistry

(***************************************************************************)
(* Binding and metadata collection.                                        *)
(***************************************************************************)
\* MetadataItem
MetadataItem(name, format, size, value) ==
    [name |-> name, format |-> format, size |-> size, value |-> value]

\* newclass.length
Length(rec) == SumSeq([i \in DOMAIN rec.meta |-> rec.meta[i].size])

\* dict(zip(dataclass_fields, values)) in parse_struct, then the dataclass
\* __init__ behind _init: field i receives values[i] while there is one, and
\* its default None otherwise; a field with neither is a missing argument
Missing(cls, values) ==
    {i \in DOMAIN Fields(cls) : i > Len(values) /\ ~Fields(cls)[i].dflt}

HasValue(values, i) == i <= Len(values)

\* a collect_metadata that stores the raw value of an enumeration field
FinalValue_raw(field, value) ==
    IF value.t = "list"
    THEN ListV([k \in DOMAIN value.items |-> value.items[k].v])
    ELSE value

\* the value collect_metadata stores back into the field
FinalValue(field, value) ==
    IF value.t = "list"
    THEN ListV([k \in DOMAIN value.items |->
                  IF field.type \in EnumTypes
                  THEN EnumOf(field.type, value.items[k].v)
                  ELSE value.items[k].v])
    ELSE IF field.type \in EnumTypes THEN EnumOf(field.type, value)
    ELSE value

TypedefLabel(cls) == <<"T[", cls.name, "(">> \o cls.primitive_format \o <<")]">>

\* the fields collect_metadata fails on: a field of a decorated type whose
\* class has no _lexer attribute
NoLexerAttr(cls, values, reg, lx) ==
    {i \in DOMAIN Fields(cls) :
        /\ HasValue(values, i)
        /\ IsWrapped(Fields(cls)[i].type, reg)
        /\ Fields(cls)[i].type \notin DOMAIN lx}

\* the fields collect_metadata fails on with the ValueError of field.type(...)
EnumFails(cls, values) ==
    {i \in DOMAIN Fields(cls) :
        /\ HasValue(values, i)
        /\ Fields(cls)[i].type \in EnumTypes
        /\ IF values[i].v.t = "list"
           THEN \E k \in DOMAIN values[i].v.items :
                   EnumRaises(Fields(cls)[i].type, values[i].v.items[k].v)
           ELSE EnumRaises(Fields(cls)[i].type, values[i].v)}

\* collect_metadata: one MetadataItem per field that holds a triple
CollectMetadata(cls, values, reg, lx) ==
    LET fields == Fields(cls)
        bound == Min(Len(fields), Len(values))
    IN  [i \in 1..bound |->
            LET field == fields[i]
                field_object == values[i]
            IN  IF IsWrapped(field.type, reg)
                THEN MetadataItem(field.name, TypedefLabel(reg[field.type]),
                                  field_object.s + lx[field.type],
                                  FinalValue(field, field_object.v))
                ELSE MetadataItem(field.name, field_object.f, field_object.s,
                                  FinalValue(field, field_object.v))]

\* the record instance after __init__ and __post_init__
MakeRecord(cls, values, reg, lx) ==
    LET meta == CollectMetadata(cls, values, reg, lx)
    IN  [cls |-> cls.name,
         attrs |-> [i \in DOMAIN Fields(cls) |->
                      IF HasValue(values, i) THEN meta[i].value ELSE NoneV],
         meta |-> meta]

(***************************************************************************)
(* Positional access, _classwrap.py lines 97-100.  The record's attributes *)
(* hold the values collect_metadata stored back, not the triples.          *)
(***************************************************************************)
Got(v) == [ok |-> TRUE, exc |-> NoExc, v |-> v]
GotErr(exc) == [ok |-> FALSE, exc |-> exc, v |-> NoneV]

\* dataclasses.asdict turns a dataclass instance into a dict
AsDict(v) == IF v.t = "rec" THEN [t |-> "dict", r |-> v.r] ELSE v

\* i[0] for one of the values of dataclasses.asdict(self)
FirstItem(v) ==
    IF v.t = "bytes"
    THEN IF v.b = <<>> THEN GotErr(Exc("IndexError", "index"))
         ELSE Got(IntV(v.b[1]))
    ELSE IF v.t = "list"
    THEN IF v.items = <<>> THEN GotErr(Exc("IndexError", "index"))
         ELSE Got(AsDict(v.items[1]))
    ELSE IF v.t = "rec" THEN GotErr(Exc("KeyError", "0"))
    ELSE GotErr(Exc("TypeError", "subscript"))

\* newclass.__getitem__(self, item) for an index item counted from 0
GetItem(rec, item) ==
    LET firsts == [i \in DOMAIN rec.attrs |-> FirstItem(rec.attrs[i])]
        bad == {i \in DOMAIN firsts : ~firsts[i].ok}
    IN  IF bad # {} THEN GotErr(firsts[SetMin(bad)].exc)
        ELSE IF item + 1 \in DOMAIN firsts THEN firsts[item + 1]
        ELSE GotErr(Exc("IndexError", "index"))

(***************************************************************************)
(* The script: its import of the library and its declarations.             *)
(***************************************************************************)
\* The import of the library and the class declarations of the script.
\* _lexer.py probes for pyleb128 (lines 22-30); without it the annotation
\* of _read_leb128 (line 243) names an unbound leb128, which an interpreter
\* that evaluates annotations at definition time reports as a NameError and
\* one that defers them does not.
LoadModule ==
    /\ status = "declaring"
    /\ order = <<>>
    /\ \E bridge \in BOOLEAN :
         /\ has_leb128' = bridge
         /\ \/ /\ status' = "ready"
               /\ registry' = DeclareAll(Fixture, registry)
               /\ order' = Fixture
               /\ err' = err
            \/ /\ ~bridge
               /\ status' = "error"
               /\ err' = Exc("NameError", "leb128")
               /\ UNCHANGED <<registry, order>>
    /\ UNCHANGED <<stream, cursor, reads, call, stack, lexers, record, furthest>>
    /\ UNCHANGED pkgvars

(***************************************************************************)
(* The decoder.                                                            *)
(***************************************************************************)
Top == stack[Len(stack)]
TopCls == registry[Top.cls]
Fmt == TopCls.primitive_format
Running == status = "running" /\ stack # <<>>

\* CStructLexer._has_tokens, between two tokens
AtToken == Running /\ ~Top.loop.on /\ Top.pos < Len(Fmt)

Lexed == NextToken(Fmt, Top.pos, Top.values)
Tok == Lexed.tok

\* the lexer after _next_token returned
Adv == [Top EXCEPT !.pos = Lexed.pos, !.token = Lexed.tok]

SetTop(f) == [stack EXCEPT ![Len(stack)] = f]

\* a parse_struct that restores the position in a finally clause
FailurePosition_restored(f, cur) == f.stream_pos

\* parse_struct, lines 180-187: an exception raised by the lexer skips the
\* seek of line 187, the reader stays where the failed operation left it
FailurePosition(f, cur) == cur

Raise(exc, f, cur, nreads) ==
    /\ status' = "error"
    /\ err' = exc
    /\ stack' = SetTop(f)
    /\ cursor' = FailurePosition(f, cur)
    /\ reads' = reads + nreads
    /\ furthest' = IF cur > furthest THEN cur ELSE furthest
    /\ UNCHANGED <<registry, order, has_leb128, stream, call, lexers, record>>
    /\ UNCHANGED pkgvars

Continue(f, cur, nreads) ==
    /\ stack' = SetTop(f)
    /\ cursor' = cur
    /\ reads' = reads + nreads
    /\ furthest' = IF cur > furthest THEN cur ELSE furthest
    /\ UNCHANGED <<registry, order, has_leb128, status, err, stream, call,
                   lexers, record>>
    /\ UNCHANGED pkgvars

\* a parse_struct that does not seek back leaves the reader where it is
RestorePosition_stay(f) == cursor

\* parse_struct, line 187: the position the reader is sought back to
RestorePosition(f) == f.stream_pos

\* a lexer that sizes a nested record by its number of members
TypedefEntry_count(cls, rec) ==
    Entry(RecV(rec), cls.primitive_format, Len(rec.meta))

\* parse, lines 138-144: the entry appended for a nested record
TypedefEntry(cls, rec) == Entry(RecV(rec), cls.primitive_format, Length(rec))

\* typedef(self.stream): newclass.__new__ up to the construction of the
\* nested lexer in parse_struct (offset -1: the reader is not moved)
CallTypedef(f, type) ==
    IF SuperNewNeedsStream(registry[type], registry)
    THEN Raise(Exc("TypeError", "__new__"), f, cursor, 0)
    ELSE /\ stack' = Append(SetTop(f), NewLexer(type, cursor))
         /\ UNCHANGED <<registry, order, has_leb128, status, err, stream,
                        cursor, reads, call, lexers, record, furthest>>
         /\ UNCHANGED pkgvars

\* CStructLexer.get_typdef_type: the index it looks up, 1-based
TypedefIndex(f) == f.pos

\* newclass.__new__ called by the script, up to the construction of the
\* lexer in parse_struct
New(clsname, s, pos, offset) ==
    /\ stream' = s
    /\ call' = [cls |-> clsname, offset |-> offset, pos |-> pos]
    /\ reads' = 0
    /\ IF SuperNewNeedsStream(registry[clsname], registry)
       THEN /\ status' = "error"
            /\ err' = Exc("TypeError", "__new__")
            /\ cursor' = pos
            /\ stack' = <<>>
       ELSE /\ status' = "running"
            /\ err' = err
            /\ cursor' = IF offset > 0 - 1 THEN offset ELSE pos
            /\ stack' = <<NewLexer(clsname, pos)>>
    /\ furthest' = cursor'
    /\ UNCHANGED <<registry, order, has_leb128, lexers, record>>
    /\ UNCHANGED pkgvars

Decode ==
    /\ status = "ready"
    /\ \E clsname \in DOMAIN registry, s \in Streams, pos \in 0..1,
       offset \in (0 - 1)..1 :
          /\ pos <= Len(s)
          /\ New(clsname, s, pos, offset)

\* _next_token raises
LexFail ==
    /\ AtToken
    /\ ~Lexed.ok
    /\ Raise(Lexed.exc, [Top EXCEPT !.pos = Lexed.pos], cursor, 0)

\* a parse without the zero test runs the loop zero times
IsZeroCount_never(tok) == FALSE

\* parse, line 83: token.repeat_count == 0
IsZeroCount(tok) == tok.repeat_count = IntV(0)

\* parse, lines 82-86: a variable array of no elements
VarArrZero ==
    /\ AtToken
    /\ Lexed.ok /\ Tok.vararr
    /\ IsZeroCount(Tok)
    /\ Continue([Adv EXCEPT !.values =
                    Append(@, Entry(NoneV, <<Tok.format_ch>>, 0))],
                cursor, 0)

\* parse, lines 88-91: the loop over range(token.repeat_count) starts
VarArrBegin ==
    /\ AtToken
    /\ Lexed.ok /\ Tok.vararr
    /\ ~IsZeroCount(Tok)
    /\ IF Tok.repeat_count.t # "int"
       THEN Raise(Exc("TypeError", "range"), Adv, cursor, 0)
       ELSE Continue([Adv EXCEPT !.loop =
                        [on |-> TRUE,
                         left |-> IF Tok.repeat_count.n > 0
                                  THEN Tok.repeat_count.n ELSE 0,
                         items |-> <<>>, sum |-> 0, start |-> cursor]],
                     cursor, 0)

\* a loop that appends the element and does not count the iteration
AddItem_same(f, e) ==
    [f EXCEPT !.loop = [on |-> TRUE, left |-> @.left,
                        items |-> Append(@.items, e), sum |-> @.sum + e.s,
                        start |-> @.start]]

\* parse, lines 91-124: range(token.repeat_count) hands out one iteration
\* less, the element joins the items of the loop
AddItem(f, e) ==
    [f EXCEPT !.loop = [on |-> TRUE, left |-> @.left - 1,
                        items |-> Append(@.items, e), sum |-> @.sum + e.s,
                        start |-> @.start]]

\* parse, lines 91-124: one iteration of the loop
VarArrElem ==
    /\ Running
    /\ Top.loop.on /\ Top.loop.left > 0
    /\ LET ch == Top.token.format_ch IN
       IF ~has_leb128
       THEN Raise(Exc("InvalidFormat", "leb128"), Top, cursor, 0)
       ELSE IF ch \in LebChars
       THEN LET r == ReadLeb128(ch, stream, cursor) IN
            IF r.ok THEN Continue(AddItem(Top, r.entry), r.cursor, r.reads)
            ELSE Raise(r.exc, Top, r.cursor, r.reads)
       ELSE IF ch = TYPEDEF_FORMAT_CH /\ TypedefIndex(Top) > Len(Fields(TopCls))
       THEN Raise(Exc("IndexError", "tuple index"), Top, cursor, 0)
       ELSE IF ch = TYPEDEF_FORMAT_CH
               /\ IsWrapped(Fields(TopCls)[TypedefIndex(Top)].type, registry)
       THEN CallTypedef(Top, Fields(TopCls)[TypedefIndex(Top)].type)
       ELSE LET r == UnpackFirst(IntV(1), ch, ByteOrder(TopCls), stream, cursor) IN
            IF r.ok THEN Continue(AddItem(Top, r.entry), r.cursor, r.reads)
            ELSE Raise(r.exc, Top, r.cursor, r.reads)

\* parse, line 126: the loop is over
VarArrEnd ==
    /\ Running
    /\ Top.loop.on /\ Top.loop.left = 0
    /\ Continue([Top EXCEPT
                   !.values = Append(@, Entry(ListV(Top.loop.items),
                                 StrOfInt(Top.token.repeat_count.n)
                                    \o <<Top.token.format_ch>>,
                                 Top.loop.sum)),
                   !.loop = NoLoop],
                cursor, 0)

\* a padding token: the lexer that _metadata.py reads pad_bytes from skips
\* the token's bytes, counts them and appends no value
PadStep ==
    /\ AtToken
    /\ Lexed.ok /\ ~Tok.vararr
    /\ Tok.format_ch = PAD_FORMAT_CH
    /\ LET n == IF Tok.repeat_count.t = "int" THEN Tok.repeat_count.n ELSE 0
           data == ReadData(stream, cursor, n)
       IN  IF Len(data) # n
           THEN Raise(Exc("EOFError", "padding"), Adv, cursor + Len(data), 1)
           ELSE Continue([Adv EXCEPT !.pad_bytes = @ + n], cursor + n, 1)

\* parse, lines 130-146: a nested-type token
TypedefStep ==
    /\ AtToken
    /\ Lexed.ok /\ ~Tok.vararr
    /\ Tok.format_ch = TYPEDEF_FORMAT_CH
    /\ IF TypedefIndex(Adv) > Len(Fields(TopCls))
       THEN Raise(Exc("IndexError", "tuple index"), Adv, cursor, 0)
       ELSE IF ~IsWrapped(Fields(TopCls)[TypedefIndex(Adv)].type, registry)
       THEN Raise(Exc("InvalidFormat", "typedef"), Adv, cursor, 0)
       ELSE CallTypedef(Adv, Fields(TopCls)[TypedefIndex(Adv)].type)

PlainToken ==
    /\ AtToken
    /\ Lexed.ok /\ ~Tok.vararr
    /\ Tok.format_ch \notin {TYPEDEF_FORMAT_CH, PAD_FORMAT_CH}

\* _Token.is_leb128, lines 50-54, reached from parse line 148
Leb128Missing ==
    /\ PlainToken
    /\ ~has_leb128
    /\ Raise(Exc("InvalidFormat", "leb128"), Adv, cursor, 0)

\* parse, lines 148-151: a variable-length integer
Leb128Step ==
    /\ PlainToken
    /\ has_leb128
    /\ Tok.format_ch \in LebChars
    /\ LET r == ReadLeb128(Tok.format_ch, stream, cursor) IN
       IF r.ok
       THEN Continue([Adv EXCEPT !.values = Append(@, r.entry)], r.cursor, r.reads)
       ELSE Raise(r.exc, Adv, r.cursor, r.reads)

\* parse, lines 153-162: a plain primitive or byte-string token
PlainStep ==
    /\ PlainToken
    /\ has_leb128
    /\ Tok.format_ch \notin LebChars
    /\ LET r == UnpackFirst(Tok.repeat_count, Tok.format_ch, ByteOrder(TopCls),
                            stream, cursor)
       IN  IF r.ok
           THEN Continue([Adv EXCEPT !.values = Append(@, r.entry)],
                         r.cursor, r.reads)
           ELSE Raise(r.exc, Adv, r.cursor, r.reads)

\* the end of parse: parse_struct lines 187-194, then newclass.__new__,
\* _init and __post_init__; the record goes to the caller, which is the
\* script or the lexer that met the nested-type token
Return ==
    /\ Running
    /\ ~Top.loop.on /\ Top.pos >= Len(Fmt)
    /\ LET lx == (Top.cls :> Top.pad_bytes) @@ lexers
           rec == MakeRecord(TopCls, Top.values, registry, lx)
           e == TypedefEntry(TopCls, rec)
           up == stack[Len(stack) - 1]
           bad == NoLexerAttr(TopCls, Top.values, registry, lx)
                     \cup EnumFails(TopCls, Top.values)
       IN  /\ cursor' = RestorePosition(Top)
           /\ lexers' = lx
           /\ reads' = reads
           /\ IF Missing(TopCls, Top.values) # {}
              THEN /\ status' = "error"
                   /\ err' = Exc("TypeError", "missing argument")
                   /\ UNCHANGED <<stack, record>>
              ELSE IF bad # {}
              THEN /\ status' = "error"
                   /\ err' = IF SetMin(bad) \in EnumFails(TopCls, Top.values)
                             THEN Exc("ValueError", "enum")
                             ELSE Exc("AttributeError", "_lexer")
                   /\ UNCHANGED <<stack, record>>
              ELSE IF Len(stack) = 1
              THEN /\ status' = "done"
                   /\ record' = rec
                   /\ stack' = <<>>
                   /\ err' = err
              ELSE /\ stack' = [i \in 1..(Len(stack) - 1) |->
                                  IF i < Len(stack) - 1 THEN stack[i]
                                  ELSE IF up.loop.on THEN AddItem(up, e)
                                  ELSE [up EXCEPT !.values = Append(@, e)]]
                   /\ UNCHANGED <<status, err, record>>
    /\ UNCHANGED <<registry, order, has_leb128, stream, call, furthest>>
    /\ UNCHANGED pkgvars

Next ==
    \/ LoadModule
    \/ Decode
    \/ LexFail
    \/ VarArrZero
    \/ VarArrBegin
    \/ VarArrElem
    \/ VarArrEnd
    \/ PadStep
    \/ TypedefStep
    \/ Leb128Missing
    \/ Leb128Step
    \/ PlainStep
    \/ Return

Spec == Init /\ [][Next]_vars

(***************************************************************************)
(* The decorator on arbitrary declarations: up to MaxClasses classes, each *)
(* on any earlier class or on object, with any of the grammar fragments    *)
(* and annotation lists below.  Field names are unique across classes.     *)
(***************************************************************************)
ClassNames == <<"K1", "K2", "K3", "K4", "K5", "K6">>

Fragments == {<<"B">>, <<"2", "s">>}

AnnotationShapes ==
    {<<"int">>, <<"InitVar">>, <<"ClassVar">>, <<"int", "InitVar">>,
     <<"InitVar", "int">>}

\* cstruct(data_format)(cls): the decorator applied to one more class
Decorate ==
    /\ status = "declaring"
    /\ Len(order) < MaxClasses
    /\ \E base \in {"object"} \cup DOMAIN registry, frag \in Fragments,
          shape \in AnnotationShapes :
         LET name == ClassNames[Len(order) + 1]
             decl == Decl(name, base, frag, "little",
                          [k \in DOMAIN shape |-> Ann(<<name, k>>, shape[k])])
         IN  /\ registry' = (name :> MakeNewclass(decl, registry)) @@ registry
             /\ order' = Append(order, decl)
    /\ UNCHANGED <<has_leb128, status, err, stream, cursor, reads, call, stack,
                   lexers, record, furthest>>
    /\ UNCHANGED pkgvars

NextDecl == Decorate

SpecDecl == Init /\ [][NextDecl]_vars

(***************************************************************************)
(* The package as imported: src/cstruct/__init__.py carries its own lexer, *)
(* decorator and metadata collector.  Its _next_token, _read_leb128 and    *)
(* reads are the statements of _lexer.py (NextToken, ReadLeb128,           *)
(* UnpackFirst); it has no nested-type and no padding token.  A script     *)
(* decodes up to MaxCalls records, each from a fresh reader.               *)
(***************************************************************************)
PkgClasses == {"One", "ByteWord", "Arr", "Leb", "Tagged", "Dflt", "Short",
               "TwoTok", "ParenFirst"}

PkgStreams == SeqsUpTo(0..MaxByte, PkgMaxLen)

PkgOk(values, cur, nreads) ==
    [ok |-> TRUE, exc |-> NoExc, values |-> values, cursor |-> cur,
     reads |-> nreads]
PkgFail(exc, cur, nreads) ==
    [ok |-> FALSE, exc |-> exc, values |-> <<>>, cursor |-> cur,
     reads |-> nreads]

\* _CStructLexer.parse, lines 229-250: the loop over range(repeat_count)
RECURSIVE PkgLoop(_, _, _, _, _, _, _)
PkgLoop(left, ch, byte_order, s, cur, nreads, items) ==
    IF left <= 0 THEN PkgOk(items, cur, nreads)
    ELSE LET r == IF ch \in LebChars THEN ReadLeb128(ch, s, cur)
                  ELSE UnpackFirst(IntV(1), ch, byte_order, s, cur)
         IN  IF ~r.ok THEN PkgFail(r.exc, r.cursor, nreads + r.reads)
             ELSE PkgLoop(left - 1, ch, byte_order, s, r.cursor,
                          nreads + r.reads, Append(items, r.entry))

\* _CStructLexer.parse, lines 216-266, from grammar position pos on
RECURSIVE PkgParse(_, _, _, _, _, _)
PkgParse(cls, s, pos, values, cur, nreads) ==
    IF pos >= Len(cls.primitive_format) THEN PkgOk(values, cur, nreads)
    ELSE LET lx == NextToken(cls.primitive_format, pos, values)
             tok == lx.tok
             ch == tok.format_ch
         IN  IF ~lx.ok THEN PkgFail(lx.exc, cur, nreads)
             ELSE IF tok.vararr /\ IsZeroCount(tok)
             THEN PkgParse(cls, s, lx.pos,
                           Append(values, Entry(NoneV, <<ch>>, 0)), cur, nreads)
             ELSE IF tok.vararr /\ tok.repeat_count.t # "int"
             THEN PkgFail(Exc("TypeError", "range"), cur, nreads)
             ELSE IF tok.vararr /\ tok.repeat_count.n > 0 /\ ~has_leb128
             THEN PkgFail(Exc("InvalidFormat", "leb128"), cur, nreads)
             ELSE IF tok.vararr
             THEN LET r == PkgLoop(tok.repeat_count.n, ch, ByteOrder(cls), s,
                                   cur, nreads, <<>>)
                  IN  IF ~r.ok THEN r
                      ELSE PkgParse(cls, s, lx.pos,
                             Append(values,
                                Entry(ListV(r.values),
                                      StrOfInt(tok.repeat_count.n) \o <<ch>>,
                                      SumSeq([k \in DOMAIN r.values |->
                                                 r.values[k].s]))),
                             r.cursor, r.reads)
             ELSE IF ~has_leb128
             THEN PkgFail(Exc("InvalidFormat", "leb128"), cur, nreads)
             ELSE LET r == IF ch \in LebChars THEN ReadLeb128(ch, s, cur)
                           ELSE UnpackFirst(tok.repeat_count, ch,
                                            ByteOrder(cls), s, cur)
                  IN  IF ~r.ok THEN PkgFail(r.exc, r.cursor, nreads + r.reads)
                      ELSE PkgParse(cls, s, lx.pos, Append(values, r.entry),
                                    r.cursor, nreads + r.reads)

\* _collect_metadata, lines 96-109: the value stored back into the field
PkgFinalValue(field, value) ==
    IF value.t = "list"
    THEN ListV([k \in DOMAIN value.items |-> value.items[k].v])
    ELSE IF field.type \in EnumTypes THEN EnumOf(field.type, value)
    ELSE value

\* the instance after the dataclass __init__ and newclass.__post_init__:
\* raw is dataclass_values, the first elements of the triples
PkgInstance(cls, values) ==
    [cls |-> cls.name,
     raw |-> [i \in DOMAIN Fields(cls) |-> values[i].v],
     attrs |-> [i \in DOMAIN Fields(cls) |->
                  PkgFinalValue(Fields(cls)[i], values[i].v)],
     meta |-> [i \in DOMAIN Fields(cls) |->
                  [name |-> Fields(cls)[i].name, format |-> values[i].f,
                   size |-> values[i].s]]]

\* newclass.__new__ of __init__.py: parse_struct, the dataclass __init__
\* and __post_init__, which binds __getitem__, __repr__ and __str__ of the
\* class to the new instance
PkgDecode ==
    /\ status \in {"ready", "done"}
    /\ Len(instances) < MaxCalls
    /\ \E clsname \in PkgClasses, s \in PkgStreams, offset \in {0 - 1, 0} :
         LET cls == registry[clsname]
             r == PkgParse(cls, s, 0, <<>>,
                           IF offset > 0 - 1 THEN offset ELSE 0, 0)
             unset == {i \in DOMAIN Fields(cls) : ~HasValue(r.values, i)}
             done == r.ok /\ unset = {}
         IN  /\ stream' = s
             /\ call' = [cls |-> clsname, offset |-> offset, pos |-> 0]
             /\ reads' = r.reads
             /\ furthest' = r.cursor
             /\ cursor' = IF r.ok THEN 0 ELSE r.cursor
             /\ status' = IF done THEN "done" ELSE "error"
             /\ err' = IF ~r.ok THEN r.exc
                       ELSE IF Missing(cls, r.values) # {}
                       THEN Exc("TypeError", "missing argument")
                       ELSE IF unset # {} THEN Exc("TypeError", "subscript")
                       ELSE err
             /\ instances' = IF done
                             THEN Append(instances, PkgInstance(cls, r.values))
                             ELSE instances
             /\ accessors' = IF done
                             THEN (clsname :> (Len(instances) + 1)) @@ accessors
                             ELSE accessors
    /\ UNCHANGED <<registry, order, has_leb128, stack, lexers, record>>

\* the __getitem__ of the class, lambda zelf, item: dataclass_values[item],
\* applied to the k-th instance returned
PkgGetItem(k, item) ==
    instances[accessors[instances[k].cls]].raw[item + 1]

\* the __repr__ of the class, lambda zelf: repr(self.meta)
PkgRepr(k) == instances[accessors[instances[k].cls]].meta

NextPkg ==
    \/ LoadModule
    \/ PkgDecode

SpecPkg == Init /\ [][NextPkg]_vars

(***************************************************************************)
(* Properties.                                                             *)
(***************************************************************************)
TypeOK ==
    /\ status \in {"declaring", "ready", "running", "done", "error"}
    /\ cursor \in Nat
    /\ reads \in Nat
    /\ (status = "running") => stack # <<>>

\* the lexer on top of the stack after the step
TopNext == stack'[Len(stack')]

\* the token at the current position is a back-reference "(i)c"
AtBackRef == AtToken /\ Fmt[Top.pos + 1] = "("

\* C1: a plain token with a literal repeat count N >= 1 and a fixed-width
\* scalar code appends N entries to the value list, the k-th holding the
\* k-th scalar read from the stream.
C1_RepeatAppendsEachScalar ==
    [][(/\ AtToken
        /\ Lexed.ok
        /\ ~AtBackRef
        /\ Tok.format_ch \in {"B", "H"}
        /\ Tok.repeat_count.n >= 1
        /\ status' = "running"
        /\ stack' # stack)
       => LET n == Tok.repeat_count.n
              w == ItemSize(Tok.format_ch)
              base == Len(Top.values)
          IN  /\ Len(stack') = Len(stack)
              /\ Len(TopNext.values) = base + n
              /\ \A k \in 1..n :
                    TopNext.values[base + k].v =
                        IntV(Scalar(Tok.format_ch, ByteOrder(TopCls),
                                    SubSeq(stream, cursor + (k - 1) * w + 1,
                                           cursor + k * w)))]_vars

\* C2: a nested decode starts at the outer decode's cursor and no seek is
\* performed: the reader is where the nested decode left it when the outer
\* decode reads its next token.
C2_NestedDecodeKeepsCursor ==
    [][(/\ Running
        /\ status' = "running"
        /\ Len(stack') # Len(stack))
       => cursor' = cursor]_vars

\* C3: after a successful top-level decode call, with or without an
\* explicit offset, the reader is at the position it had before the call.
C3_PositionRestored ==
    status = "done" => cursor = call.pos

C3_Witness ==
    /\ status = "done"
    /\ call.offset = 1 /\ call.pos = 0
    /\ Len(record.meta) > 0
    /\ record.meta[1].size > 0

\* C4: without the bridge, a decode fails with the unsupported-format error
\* only when a token with a variable-length-integer code is to be decoded;
\* grammars without such a token decode as they do with the bridge.
C4_UnsupportedOnlyForLebCodes ==
    (status = "error" /\ err = Exc("InvalidFormat", "leb128"))
        => Top.token.format_ch \in LebChars

\* C5: a back-reference (i)c whose referenced value is 0 raises no error,
\* leaves the cursor where it is and appends exactly one entry with an
\* empty or null payload and byte size 0.
C5_ZeroBackRef ==
    [][(/\ AtBackRef
        /\ Lexed.ok
        /\ Tok.repeat_count = IntV(0))
       => /\ status' = "running"
          /\ cursor' = cursor
          /\ Len(stack') = Len(stack)
          /\ Len(TopNext.values) = Len(Top.values) + 1
          /\ TopNext.values[Len(TopNext.values)].v \in {NoneV, BytesV(<<>>)}
          /\ TopNext.values[Len(TopNext.values)].s = 0]_vars

C5_Witness ==
    /\ stack # <<>>
    /\ Top.token.vararr
    /\ Top.token.repeat_count = IntV(0)
    /\ Len(Top.values) >= 2
    /\ Top.values[Len(Top.values)] = Entry(NoneV, <<Top.token.format_ch>>, 0)

\* C6: when the number of decoded values differs from the number of
\* non-synthetic fields, the decode call fails with the schema-mismatch
\* error (InvalidFormat) instead of returning a record.
C6_CountMismatchFails ==
    [][(/\ Running
        /\ ~Top.loop.on
        /\ Top.pos >= Len(Fmt)
        /\ Len(Top.values) # Len(Fields(TopCls)))
       => (status' = "error" /\ err'.type = "InvalidFormat")]_vars

\* the back-reference at the current position is complete, and its index
\* is empty or not a number, or out of range, or names a non-integer value
BadBackRef ==
    /\ AtBackRef
    /\ Top.pos > 0
    /\ ClosingAt(Fmt, Top.pos + 1) # {}
    /\ LET close == SetMin(ClosingAt(Fmt, Top.pos + 1))
           digit_buffer == SubSeq(Fmt, Top.pos + 2, close - 1)
       IN  /\ close < Len(Fmt)
           /\ IF digit_buffer = <<>> \/ Range(digit_buffer) \ Digits # {}
              THEN TRUE
              ELSE IF ParseInt(digit_buffer) >= Len(Top.values)
              THEN TRUE
              ELSE Top.values[ParseInt(digit_buffer) + 1].v.t # "int"

\* C7: a back-reference that is not the first grammar character fails with
\* the malformed-grammar error (InvalidFormat) when its index is empty or
\* not a decimal number, out of range, or names a value that is not a
\* decoded integer.
C7_BadBackRefIsMalformedGrammar ==
    [][BadBackRef => (status' = "error" /\ err'.type = "InvalidFormat")]_vars

\* C8: a grammar whose first character is "(" makes the decode fail with
\* the malformed-grammar error before any byte is read from the reader.
C8_ParenFirstFails ==
    [][(/\ AtToken
        /\ Top.pos = 0
        /\ Fmt[1] = "(")
       => /\ status' = "error"
          /\ err' = Exc("InvalidFormat", "start")
          /\ reads' = reads
          /\ cursor' = cursor
          /\ (Len(stack) = 1 => reads' = 0)]_vars

C8_Witness ==
    /\ status = "error"
    /\ err = Exc("InvalidFormat", "start")
    /\ reads = 0
    /\ stream # <<>>

\* C9: for every derived class D on a base B, at any depth, the composed
\* grammar is B's composed grammar followed by D's fragment, the decodable
\* fields are B's followed by D's own in declaration order, and B's
\* synthetic fields, excluded from D's list, remain present in B.
C9_Composition ==
    \A i \in DOMAIN order :
        LET d == order[i] IN
        d.base # "object" =>
            LET D == registry[d.name]
                B == registry[d.base]
            IN  /\ D.primitive_format = B.primitive_format \o d.data_format
                /\ Fields(D) = Fields(B) \o
                       SelectSeq(d.annotations, LAMBDA a : ~IsSynthetic(a))
                /\ \A k \in DOMAIN B.annotations :
                       IsSynthetic(B.annotations[k])
                           => B.annotations[k] \in Range(B.dc_fields)

\* C9, amended: as C9, except that B's synthetic fields remain present in B
\* when B is a root class (one declared on object).
C9_CompositionRootKeepsSynthetic ==
    \A i \in DOMAIN order :
        LET d == order[i] IN
        d.base # "object" =>
            LET D == registry[d.name]
                B == registry[d.base]
            IN  /\ D.primitive_format = B.primitive_format \o d.data_format
                /\ Fields(D) = Fields(B) \o
                       SelectSeq(d.annotations, LAMBDA a : ~IsSynthetic(a))
                /\ \A k \in DOMAIN Fields(D) : ~IsSynthetic(Fields(D)[k])
                /\ B.base = "object" =>
                       \A k \in DOMAIN B.annotations :
                           IsSynthetic(B.annotations[k])
                               => B.annotations[k] \in Range(B.dc_fields)

C9_Witness ==
    /\ Len(order) = 3
    /\ order[2].base = "K1" /\ order[3].base = "K2"
    /\ order[1].annotations[1].type = "InitVar"
    /\ order[2].annotations[1].type = "InitVar"
    /\ Len(order[3].annotations) = 2
    /\ Len(Fields(registry["K3"])) = 3

\* rec reports, for each nested-record member, the nested record's own
\* length plus the padding its grammar consumed
NestedSizesOK(rec) ==
    \A i \in DOMAIN rec.meta :
        rec.meta[i].value.t = "rec" =>
            rec.meta[i].size = Length(rec.meta[i].value.r)
                                  + lexers[rec.meta[i].value.r.cls]

NestedMembers(rec) ==
    {rec.meta[i].value.r : i \in {k \in DOMAIN rec.meta : rec.meta[k].value.t = "rec"}}

C11_PositionalAccess ==
    status = "done" =>
        \A i \in DOMAIN record.attrs :
            GetItem(record, i - 1) = Got(record.attrs[i])

\* C12: decoding never modifies state shared between the instances of a
\* record type: positional access and rendering of an earlier record return
\* that record's own values after any later decode.
C12_EarlierRecordsKeepTheirValues ==
    \A k \in DOMAIN instances :
        /\ PkgRepr(k) = instances[k].meta
        /\ \A i \in DOMAIN instances[k].raw :
               PkgGetItem(k, i - 1) = instances[k].raw[i]

\* the top-level call is about to bind its values and collect the metadata
AtBinding ==
    /\ Running /\ Len(stack) = 1
    /\ ~Top.loop.on /\ Top.pos >= Len(Fmt)
    /\ Missing(TopCls, Top.values) = {}
    /\ NoLexerAttr(TopCls, Top.values, registry,
                   (Top.cls :> Top.pad_bytes) @@ lexers) = {}

EnumFields(cls, values) ==
    {i \in DOMAIN Fields(cls) :
        HasValue(values, i) /\ Fields(cls)[i].type \in EnumTypes}

\* the symbolic constant of a raw value: the member with that value, or the
\* unknown/none member (value 0) when there is none
Symbolic(type, v) ==
    IF v.t = "int" /\ v.n \in EnumMembers(type) THEN EnumV(type, v.n)
    ELSE EnumV(type, 0)

SymbolicField(type, v) ==
    IF v.t = "list"
    THEN ListV([k \in DOMAIN v.items |-> Symbolic(type, v.items[k].v)])
    ELSE Symbolic(type, v)

\* C13: metadata collection replaces the raw integer of every enumeration
\* field by its symbolic constant, and by the unknown/none constant when no
\* constant matches, without raising, for every enumeration type.
C13_EnumNeverRaises ==
    [][(AtBinding /\ EnumFields(TopCls, Top.values) # {})
         => /\ status' = "done"
            /\ \A i \in EnumFields(TopCls, Top.values) :
                  record'.attrs[i] =
                     SymbolicField(Fields(TopCls)[i].type, Top.values[i].v)]_vars

\* C13, amended: as C13 for the enumeration types that define the _missing_
\* fallback; for a type without it, a value with no matching constant makes
\* the decode raise ValueError.
C13_EnumWithHookNeverRaises ==
    [][(AtBinding /\ EnumFields(TopCls, Top.values) # {})
         => IF EnumFails(TopCls, Top.values) = {}
            THEN /\ status' = "done"
                 /\ \A i \in EnumFields(TopCls, Top.values) :
                       record'.attrs[i] =
                          SymbolicField(Fields(TopCls)[i].type,
                                        Top.values[i].v)
            ELSE /\ status' = "error"
                 /\ err' = Exc("ValueError", "enum")
                 /\ \A i \in EnumFails(TopCls, Top.values) :
                       ~HasMissingHook(Fields(TopCls)[i].type)]_vars

C13_Witness ==
    /\ status = "done"
    /\ record.cls = "Tagged"
    /\ stream = <<129>>
    /\ record.attrs[1] = EnumV("ELF_CLASS", 0)
    /\ record.meta[1].value = EnumV("ELF_CLASS", 0)

\* the step is the end of a parse: the seek back, then binding and metadata
AtReturn == Running /\ ~Top.loop.on /\ Top.pos >= Len(Fmt)

\* C14: every error raised while decoding aborts the whole call, no record
\* is returned, and the reader is left where the failure occurred, not
\* moved back towards the position before the call.
C14_ErrorLeavesReaderInPlace ==
    [][(Running /\ status' = "error")
         => /\ record' = NoRecord
            /\ cursor' >= cursor]_vars

\* C14, amended: as C14 for the errors raised while the grammar is lexed and
\* the stream is read, at any nesting depth; an error raised while the
\* values are bound to the fields or the metadata is collected is raised
\* after the reader has been moved back to where that (nested or top-level)
\* decode started.
C14_ErrorAbortsWithoutCleanup ==
    [][(Running /\ status' = "error")
         => /\ record' = NoRecord
            /\ stack' # <<>>
            /\ IF AtReturn THEN cursor' = Top.stream_pos
               ELSE cursor' >= cursor]_vars

C14_Witness ==
    /\ status = "error"
    /\ err.type = "struct.error"
    /\ Len(stack) = 2
    /\ call.pos = 0
    /\ cursor > 0
    /\ record = NoRecord

\* the lexer is at a plain nested-type token
AtTypedefToken ==
    /\ AtToken
    /\ Lexed.ok /\ ~Tok.vararr
    /\ Tok.format_ch = TYPEDEF_FORMAT_CH

\* the token's field position: the number of values appended so far
\* (counted from 1 in Fields)
FieldPosition == Len(Top.values) + 1

\* C15: a nested-type token decodes the schema declared for the field at the
\* token's field position, whatever the tokens before it look like, and
\* fails with MalformedGrammar when that field is not a nested-schema field.
C15_TypedefUsesFieldPosition ==
    [][(AtTypedefToken /\ FieldPosition \in DOMAIN Fields(TopCls))
         => IF IsWrapped(Fields(TopCls)[FieldPosition].type, registry)
            THEN /\ status' = "running"
                 /\ Len(stack') = Len(stack) + 1
                 /\ TopNext.cls = Fields(TopCls)[FieldPosition].type
            ELSE /\ status' = "error"
                 /\ err' = Exc("InvalidFormat", "typedef")]_vars

\* the loop over a back-reference array of N > 0 elements has just ended
AtVarArrEnd ==
    /\ Running
    /\ Top.loop.on /\ Top.loop.left = 0
    /\ Top.token.repeat_count.n > 0

\* the stream offset of the k-th element of the array
ElemOffset(k) ==
    Top.loop.start + SumSeq([j \in 1..(k - 1) |-> Top.loop.items[j].s])

\* C16: a back-reference array (i)c, c other than s, of N > 0 elements reads
\* N elements from consecutive stream positions, appends one entry holding
\* the list of them with the sum of their sizes, and leaves the cursor
\* advanced by that sum.
C16_VarArrReadsConsecutiveElements ==
    [][AtVarArrEnd
         => LET e == TopNext.values[Len(TopNext.values)]
                items == Top.loop.items
            IN  /\ Len(TopNext.values) = Len(Top.values) + 1
                /\ Len(items) = Top.token.repeat_count.n
                /\ e.v = ListV(items)
                /\ e.s = SumSeq([k \in DOMAIN items |-> items[k].s])
                /\ cursor' = Top.loop.start + e.s
                /\ \A k \in DOMAIN items :
                      Top.token.format_ch \in {"B", "H"} =>
                         items[k].v =
                            IntV(Scalar(Top.token.format_ch, ByteOrder(TopCls),
                                        SubSeq(stream, ElemOffset(k) + 1,
                                               ElemOffset(k) + items[k].s)))]_vars

\* C17: a byte-string back-reference (i)s whose referenced value is 0 is
\* treated like a zero-count array: a null placeholder of size 0 is appended
\* and no read call is made on the reader.
C17_ZeroByteStringIsPlaceholder ==
    [][(/\ AtBackRef
        /\ Lexed.ok
        /\ Tok.format_ch = "s"
        /\ Tok.repeat_count = IntV(0))
       => /\ status' = "running"
          /\ reads' = reads
          /\ cursor' = cursor
          /\ Len(TopNext.values) = Len(Top.values) + 1
          /\ TopNext.values[Len(TopNext.values)].v = NoneV
          /\ TopNext.values[Len(TopNext.values)].s = 0]_vars

\* the position at which the top-level call started to decode
StartPosition == IF call.offset > 0 - 1 THEN call.offset ELSE call.pos

\* C18: after a successful top-level decode the record's length, the sum of
\* the sizes of its metadata items, is the number of bytes consumed: the
\* furthest position the reader reached minus the position decoding
\* started at.
C18_LengthIsBytesConsumed ==
    status = "done" => Length(record) = furthest - StartPosition

\* the grammar ends inside a token: trailing digits with no code, an open
\* parenthesis that is never closed, or nothing after the closing one
EndsInsideToken(fmt) ==
    /\ fmt # <<>>
    /\ \/ fmt[Len(fmt)] \in Digits
       \/ fmt[Len(fmt)] = ")"
       \/ \E i \in DOMAIN fmt : fmt[i] = "(" /\ ClosingAt(fmt, i) = {}

\* the place of a class in the order of declaration
ClassIndex(name) == CHOOSE i \in DOMAIN order : order[i].name = name

\* the frame below the top one, before and after the step
Caller == stack[Len(stack) - 1]
CallerNext == stack'[Len(stack) - 1]

\* C19: a decode call terminates, with a record or with an error.  Every
\* step of a running decode either ends the call, or moves the grammar
\* position of the running lexer forward, or uses up one iteration of a
\* loop whose count was fixed when it began, or enters the decode of a
\* class declared earlier, or hands a nested record to the lexer that asked
\* for it; each token step advances the grammar position by at least one
\* character; no grammar position exceeds the length of its grammar; and a
\* grammar that ends inside a token ends the decode with an error, never
\* with a record.
C19_DecodeTerminates ==
    [][Running =>
         /\ \A i \in DOMAIN stack' :
               stack'[i].pos <= Len(registry[stack'[i].cls].primitive_format)
         /\ AtToken => stack'[Len(stack)].pos > Top.pos
         /\ \/ status' \in {"done", "error"}
            \/ /\ Len(stack') = Len(stack)
               /\ \/ TopNext.pos > Top.pos
                  \/ /\ TopNext.pos = Top.pos
                     /\ Top.loop.on
                     /\ \/ TopNext.loop.on /\ TopNext.loop.left = Top.loop.left - 1
                        \/ ~TopNext.loop.on /\ Top.loop.left = 0
                              /\ Len(TopNext.values) = Len(Top.values) + 1
            \/ /\ Len(stack') = Len(stack) + 1
               /\ ClassIndex(TopNext.cls) < ClassIndex(Top.cls)
               /\ TopNext.pos = 0 /\ ~TopNext.loop.on
            \/ /\ Len(stack') = Len(stack) - 1
               /\ CallerNext.pos = Caller.pos
               /\ IF Caller.loop.on
                  THEN CallerNext.loop.left = Caller.loop.left - 1
                  ELSE Len(CallerNext.values) = Len(Caller.values) + 1
         /\ AtReturn => ~EndsInsideToken(Fmt)
         /\ EndsInsideToken(Fmt) => status' # "done" /\ Len(stack') >= Len(stack)]_vars

C19_Witness ==
    /\ status = "error"
    /\ err.type = "IndexError"
    /\ stack # <<>>
    /\ EndsInsideToken(Fmt)
    /\ Top.pos = Len(Fmt)
    /\ Len(Top.values) > 0
    /\ record = NoRecord
====
